---- MODULE Spec2Model ----
(***************************************************************************)
(* Capability-addressed state access layer of the execution engine's       *)
(* contract API (contract_api/storage.rs): the accessors read, write, add  *)
(* (global and local partition), capability allocation, and the contract   *)
(* metadata / version / user-group registry, run against a host that owns  *)
(* the store.  One program instance issues one call at a time.             *)
(***************************************************************************)
EXTENDS Integers, Sequences, FiniteSets, TLC

\* ------------------------------------------------------------------ bounds
\* Number of addresses the host's address generator hands out.
MaxAddr == 4
\* Largest I32 the program writes or the host accumulates.
MaxVal == 2
\* Number of semantic versions the program names.
MaxVer == 1
\* Largest num_new_urefs the program asks create_contract_user_group for.
MaxNew == 2
\* Number of new_uref calls the program makes.
MaxURefs == 1

Addr == 1..MaxAddr

\* ------------------------------------------------------- capability model
\* AccessRights: the subsets of {Read, Add, Write}.
AccessRights == SUBSET {"R", "A", "W"}
READ_ADD_WRITE == {"R", "A", "W"}

\* URef::new(addr, rights)
URef(addr, rights) == [addr |-> addr, rights |-> rights]

\* Key::from(uref): always the URef variant, carrying the reference's rights.
KeyFromURef(uref) == [variant |-> "URef", addr |-> uref.addr, rights |-> uref.rights]
\* Key::Hash(addr)
KeyHash(addr) == [variant |-> "Hash", addr |-> addr, rights |-> {}]

\* ------------------------------------------------------------------ codec
\* Values of the two CLTyped types the program uses: I32 and String (a
\* String is a sequence of character codes).
I32(n) == [ty |-> "I32", n |-> n, s |-> <<>>]
Str(s) == [ty |-> "String", n |-> 0, s |-> s]
Types == {"I32", "String"}
Strings == {<<97>>}
Values == {I32(n) : n \in 0..MaxVal} \cup {Str(s) : s \in Strings}

\* u32 / i32 little endian, for the small non-negative numbers of the model.
LE4(n) == <<n % 256, (n \div 256) % 256, 0, 0>>
FromLE4(b) == b[1] + 256 * b[2] + 65536 * b[3] + 16777216 * b[4]

\* ToBytes: an I32 is four bytes, a String its u32 length then its bytes.
to_bytes(v) == IF v.ty = "I32" THEN LE4(v.n) ELSE LE4(Len(v.s)) \o v.s

\* bytesrepr::deserialize::<T>: parses a T and rejects left-over bytes.
deserialize(T, bytes) ==
    IF T = "I32"
    THEN IF Len(bytes) = 4
         THEN [ok |-> TRUE, val |-> I32(FromLE4(bytes))]
         ELSE [ok |-> FALSE, val |-> I32(0)]
    ELSE IF Len(bytes) >= 4 /\ Len(bytes) = 4 + FromLE4(SubSeq(bytes, 1, 4))
         THEN [ok |-> TRUE, val |-> Str(SubSeq(bytes, 5, Len(bytes)))]
         ELSE [ok |-> FALSE, val |-> I32(0)]

\* CLValue::from_t(value): the value's type tag with its serialized bytes.
CLValue_from_t(v) == [cl_type |-> v.ty, bytes |-> to_bytes(v)]
\* An empty slot of the store.
NoValue == [cl_type |-> "Nothing", bytes |-> <<>>]

\* Key::to_bytes: variant tag, address, then for a URef its rights bits.
RightsBits(r) ==
    (IF "R" \in r THEN 1 ELSE 0) + (IF "W" \in r THEN 2 ELSE 0)
        + (IF "A" \in r THEN 4 ELSE 0)
key_to_bytes(key) ==
    IF key.variant = "URef" THEN <<2, key.addr, 1, RightsBits(key.rights)>>
    ELSE <<1, key.addr>>

\* URef::to_bytes / from_bytes: the address, then Some(rights bits).
RightsOfBits(b) ==
    {x \in {"R", "A", "W"} :
        \/ x = "R" /\ b % 2 = 1
        \/ x = "W" /\ (b \div 2) % 2 = 1
        \/ x = "A" /\ (b \div 4) % 2 = 1}
uref_to_bytes(uref) == <<uref.addr, 1, RightsBits(uref.rights)>>
uref_from_bytes(b) ==
    IF Len(b) = 3 /\ b[2] = 1
    THEN [ok |-> TRUE, uref |-> URef(b[1], RightsOfBits(b[3]))]
    ELSE [ok |-> FALSE, uref |-> URef(0, {})]

\* Keys of the context-local partition: any serializable value.  The program
\* uses a Key value, whose bytes are those of the global key of the first
\* reference the host mints.
LocalKeyArgs ==
    {[kind |-> "Key", key |-> KeyFromURef(URef(1, READ_ADD_WRITE)), n |-> 0]}
local_key_to_bytes(k) == IF k.kind = "Key" THEN key_to_bytes(k.key) ELSE <<k.n>>
LocalKeyBytes == {local_key_to_bytes(k) : k \in LocalKeyArgs}

\* ------------------------------------------------------------------ state
VARIABLES
    global,     \* host: CLValue stored under each URef address (global partition)
    local,      \* host: CLValue stored under each key of the local partition
    metadata,   \* host: contract metadata record stored under each Hash address
    minted,     \* host: what each address was minted as ("free" when not yet)
    nextAddr,   \* host: next address of the address generator
    status,     \* the program instance: "ready" to call, "returned" from a
                \* call with its result in hand, or "aborted"
    resp,       \* the host's response to the latest status-returning call
    last        \* the latest call: arguments, addressed slot before it, result

vars == <<global, local, metadata, minted, nextAddr, status, resp, last>>

\* ------------------------------------------------------------- the host
\* The host's answer to a status-returning call: the status code and, on
\* Success, the bytes it leaves in the host buffer.
Resp(st, bytes) == [status |-> st, bytes |-> bytes]
NoResp == Resp("None", <<>>)

Versions == 1..MaxVer
Methods == {"m1"}
Labels == {"l1", "l2"}
NoGroup == [exists |-> FALSE, urefs |-> {}]
NoRecord ==
    [exists |-> FALSE, access |-> 0,
     versions |-> [v \in Versions |-> "absent"],
     groups |-> [l \in Labels |-> NoGroup]]
hashes == {h \in Addr : metadata[h].exists}
\* The addresses minted as capability references, by any operation.
urefs == {a \in Addr : minted[a] \in {"new_uref", "access", "group"}}

\* read_value(key): needs the Read right; bytes, or ValueNotFound.
host_read_value(key) ==
    IF "R" \notin key.rights THEN Resp("NoAccessRights", <<>>)
    ELSE IF global[key.addr] = NoValue THEN Resp("ValueNotFound", <<>>)
    ELSE Resp("Success", global[key.addr].bytes)

\* read_value_local(key_bytes): no rights; bytes, or ValueNotFound.
host_read_value_local(key_bytes) ==
    IF local[key_bytes] = NoValue THEN Resp("ValueNotFound", <<>>)
    ELSE Resp("Success", local[key_bytes].bytes)

\* write(key, value): needs the Write right, else the host ends the instance;
\* the last write wins.
host_write(key, cl_value) ==
    IF "W" \in key.rights
    THEN [trap |-> "", global |-> [global EXCEPT ![key.addr] = cl_value]]
    ELSE [trap |-> "NoAccessRights", global |-> global]

\* write_local(key_bytes, value)
host_write_local(key_bytes, cl_value) == [local EXCEPT ![key_bytes] = cl_value]

\* The host's merge rule: numeric values add; anything else is incompatible.
add_compatible(stored, cl_value) ==
    stored.cl_type = "I32" /\ cl_value.cl_type = "I32"
merge(stored, cl_value) ==
    [cl_type |-> "I32", bytes |-> LE4(FromLE4(stored.bytes) + FromLE4(cl_value.bytes))]

\* add(key, value): needs the Add right and an add-compatible stored value,
\* else the host ends the instance.
host_add(key, cl_value) ==
    IF "A" \notin key.rights
    THEN [trap |-> "NoAccessRights", global |-> global]
    ELSE IF ~add_compatible(global[key.addr], cl_value)
    THEN [trap |-> "TypeMismatch", global |-> global]
    ELSE [trap |-> "",
          global |-> [global EXCEPT ![key.addr] = merge(global[key.addr], cl_value)]]

\* add_local(key_bytes, value)
host_add_local(key_bytes, cl_value) ==
    IF ~add_compatible(local[key_bytes], cl_value)
    THEN [trap |-> "TypeMismatch", local |-> local]
    ELSE [trap |-> "",
          local |-> [local EXCEPT ![key_bytes] = merge(local[key_bytes], cl_value)]]

\* The host checks the access reference against the record: it is the
\* record's paired reference and carries a mutating right.
access_ok(key, access_key) ==
    /\ key.variant = "Hash"
    /\ key.addr \in hashes
    /\ metadata[key.addr].access = access_key.addr
    /\ access_key.rights \cap {"A", "W"} # {}

\* ----------------------------------------------------- the accessors
\* What a call returns: Ok(Some(val)) "OkSome", Ok(None) "OkNone", Ok(..)
\* "Ok", Err(code) "Err", a plain value "Value", nothing "Unit"; or the
\* instance ends: runtime::revert(code) "Revert", ended by the host "Trap".
Ret(kind) ==
    [kind |-> kind, val |-> I32(0), code |-> "", key |-> KeyHash(0),
     uref |-> URef(0, {}), urefs |-> <<>>]
Revert(code) == [Ret("Revert") EXCEPT !.code = code]
Trap(code) == [Ret("Trap") EXCEPT !.code = code]
Fatal(ret) == ret.kind \in {"Revert", "Trap"}
OkSome(v) == [Ret("OkSome") EXCEPT !.val = v]

\* A call across the host boundary: an ext_ffi function with the status it
\* answered and the size it reported, or runtime::read_host_buffer with the
\* size it was asked for.
HostCall(fn, st, size) == [fn |-> fn, status |-> st, size |-> size]
\* An ext_ffi function that answers no status and fills no host buffer.
Invoke(fn) == <<HostCall(fn, "", 0)>>

\* The accessors with a fetch on every status.
host_calls_fetch_always(fn, r) ==
    <<HostCall(fn, r.status, Len(r.bytes)),
      HostCall("read_host_buffer", "", Len(r.bytes))>>

\* The host calls of read, read_local and create_contract_user_group: the
\* ext_ffi function, then, only when its status is Success, one
\* read_host_buffer of the size it reported.
host_calls(fn, r) ==
    IF r.status = "Success"
    THEN <<HostCall(fn, r.status, Len(r.bytes)),
           HostCall("read_host_buffer", "", Len(r.bytes))>>
    ELSE <<HostCall(fn, r.status, Len(r.bytes))>>

\* The record of a call (arguments the call does not have keep a default).
Call(op) ==
    [op |-> op, uref |-> URef(0, {}), key |-> KeyHash(0), lkey |-> <<>>,
     val |-> I32(0), ty |-> "I32", ver |-> 0, methods |-> "", label |-> "",
     num |-> 0, existing |-> {}, preval |-> NoValue, prerec |-> NoRecord,
     hostcalls |-> <<>>, ret |-> Ret("Unit")]

\* The end of every call: the call is recorded and a fatal outcome ends the
\* instance.
Finish(call, ret) ==
    /\ last' = [call EXCEPT !.ret = ret]
    /\ status' = IF Fatal(ret) THEN "aborted" ELSE "returned"

\* read with the ValueNotFound arm missing: not found reverts like any other
\* failure status.
read_outcome_no_none_arm(r, T) ==
    IF r.status = "Success"
    THEN LET d == deserialize(T, r.bytes)
         IN IF d.ok THEN OkSome(d.val) ELSE [Ret("Err") EXCEPT !.code = "bytesrepr"]
    ELSE Revert(r.status)

\* read with every failure status taken for not found.
read_outcome_all_none(r, T) ==
    IF r.status = "Success"
    THEN LET d == deserialize(T, r.bytes)
         IN IF d.ok THEN OkSome(d.val) ELSE [Ret("Err") EXCEPT !.code = "bytesrepr"]
    ELSE Ret("OkNone")

\* read after the host call: the match on the status, then the fetch and
\* the deserialization of the bytes.
read_outcome(r, T) ==
    IF r.status = "Success"
    THEN LET d == deserialize(T, r.bytes)
         IN IF d.ok THEN OkSome(d.val) ELSE [Ret("Err") EXCEPT !.code = "bytesrepr"]
    ELSE IF r.status = "ValueNotFound" THEN Ret("OkNone")
    ELSE Revert(r.status)

\* read(uref) as the host answers it in the current state.
read_call(uref, T) == read_outcome(host_read_value(KeyFromURef(uref)), T)

\* read_local with unwrap_or_revert in place of `?` on the deserialization.
read_local_outcome_unwrap(r, T) ==
    IF r.status = "Success"
    THEN LET d == deserialize(T, r.bytes)
         IN IF d.ok THEN OkSome(d.val) ELSE Revert("Deserialize")
    ELSE IF r.status = "ValueNotFound" THEN Ret("OkNone")
    ELSE Revert(r.status)

\* read_local after the host call.
read_local_outcome(r, T) ==
    IF r.status = "Success"
    THEN LET d == deserialize(T, r.bytes)
         IN IF d.ok THEN OkSome(d.val) ELSE [Ret("Err") EXCEPT !.code = "bytesrepr"]
    ELSE IF r.status = "ValueNotFound" THEN Ret("OkNone")
    ELSE Revert(r.status)

\* read_local(key) as the host answers it in the current state.
read_local_call(k, T) ==
    read_local_outcome(host_read_value_local(local_key_to_bytes(k)), T)

\* read_or_revert with the two escalation codes swapped.
read_or_revert_outcome_swapped(r) ==
    IF Fatal(r) THEN r
    ELSE IF r.kind = "Err" THEN Revert("ValueNotFound")
    ELSE IF r.kind = "OkNone" THEN Revert("Read")
    ELSE [Ret("Value") EXCEPT !.val = r.val]

\* read_or_revert that takes an abort of read for a value.
read_or_revert_outcome_caught(r) ==
    IF r.kind = "Err" THEN Revert("Read")
    ELSE IF r.kind = "OkNone" THEN Revert("ValueNotFound")
    ELSE [Ret("Value") EXCEPT !.val = r.val]

\* read_or_revert: the two escalations of what read returned.
read_or_revert_outcome(r) ==
    IF Fatal(r) THEN r
    ELSE IF r.kind = "Err" THEN Revert("Read")
    ELSE IF r.kind = "OkNone" THEN Revert("ValueNotFound")
    ELSE [Ret("Value") EXCEPT !.val = r.val]

\* read that takes the value out of the slot it reads.
read_consuming ==
    /\ status = "ready"
    /\ \E a \in urefs, rights \in AccessRights, T \in Types :
        LET uref == URef(a, rights) IN
        /\ resp' = host_read_value(KeyFromURef(uref))
        /\ global' = [global EXCEPT ![a] = NoValue]
        /\ Finish([Call("read") EXCEPT !.uref = uref, !.ty = T,
                       !.preval = global[a],
                       !.hostcalls = host_calls("read_value",
                                                host_read_value(KeyFromURef(uref)))],
                  read_call(uref, T))
    /\ UNCHANGED <<local, metadata, minted, nextAddr>>

read ==
    /\ status = "ready"
    /\ \E a \in urefs, rights \in AccessRights, T \in Types :
        LET uref == URef(a, rights) IN
        /\ resp' = host_read_value(KeyFromURef(uref))
        /\ Finish([Call("read") EXCEPT !.uref = uref, !.ty = T,
                       !.preval = global[a],
                       !.hostcalls = host_calls("read_value",
                                                host_read_value(KeyFromURef(uref)))],
                  read_call(uref, T))
    /\ UNCHANGED <<global, local, metadata, minted, nextAddr>>

read_or_revert ==
    /\ status = "ready"
    /\ \E a \in urefs, rights \in AccessRights, T \in Types :
        LET uref == URef(a, rights) IN
        /\ resp' = host_read_value(KeyFromURef(uref))
        /\ Finish([Call("read_or_revert") EXCEPT !.uref = uref, !.ty = T,
                       !.preval = global[a],
                       !.hostcalls = host_calls("read_value",
                                                host_read_value(KeyFromURef(uref)))],
                  read_or_revert_outcome(read_call(uref, T)))
    /\ UNCHANGED <<global, local, metadata, minted, nextAddr>>

read_local ==
    /\ status = "ready"
    /\ \E k \in LocalKeyArgs, T \in Types :
        /\ resp' = host_read_value_local(local_key_to_bytes(k))
        /\ Finish([Call("read_local") EXCEPT !.lkey = local_key_to_bytes(k),
                       !.ty = T, !.preval = local[local_key_to_bytes(k)],
                       !.hostcalls = host_calls("read_value_local",
                           host_read_value_local(local_key_to_bytes(k)))],
                  read_local_call(k, T))
    /\ UNCHANGED <<global, local, metadata, minted, nextAddr>>

\* What a call without a status returns: nothing, unless the host ended the
\* instance.
UnitOrTrap(trap) == IF trap = "" THEN Ret("Unit") ELSE Trap(trap)

\* write that calls ext_ffi::add.
write_call_add(uref, value) ==
    LET out == host_add(KeyFromURef(uref), CLValue_from_t(value))
    IN [trap |-> out.trap, global |-> out.global, local |-> local]

\* write(uref, value): the key and the CLValue go to ext_ffi::write; the local
\* partition is not part of the call.
write_call(uref, value) ==
    LET out == host_write(KeyFromURef(uref), CLValue_from_t(value))
    IN [trap |-> out.trap, global |-> out.global, local |-> local]

write ==
    /\ status = "ready"
    /\ \E a \in urefs, rights \in AccessRights, v \in Values :
        LET out == write_call(URef(a, rights), v) IN
        /\ global' = out.global
        /\ local' = out.local
        /\ Finish([Call("write") EXCEPT !.uref = URef(a, rights), !.val = v,
                       !.preval = global[a], !.hostcalls = Invoke("write")],
                  UnitOrTrap(out.trap))
    /\ resp' = NoResp
    /\ UNCHANGED <<metadata, minted, nextAddr>>

\* write_local that calls ext_ffi::write: a key whose bytes are a global
\* key's lands in the global partition.
write_local_call_global(k, value) ==
    IF k.kind = "Key"
    THEN [global |-> [global EXCEPT ![k.key.addr] = CLValue_from_t(value)],
          local |-> local]
    ELSE [global |-> global,
          local |-> host_write_local(local_key_to_bytes(k), CLValue_from_t(value))]

\* write_local(key, value): the key bytes and the CLValue go to
\* ext_ffi::write_local; the global partition is not part of the call.
write_local_call(k, value) ==
    [global |-> global,
     local |-> host_write_local(local_key_to_bytes(k), CLValue_from_t(value))]

write_local ==
    /\ status = "ready"
    /\ \E k \in LocalKeyArgs, v \in Values :
        LET out == write_local_call(k, v) IN
        /\ local' = out.local
        /\ global' = out.global
        /\ Finish([Call("write_local") EXCEPT !.lkey = local_key_to_bytes(k),
                       !.val = v, !.preval = local[local_key_to_bytes(k)],
                       !.hostcalls = Invoke("write_local")],
                  Ret("Unit"))
    /\ resp' = NoResp
    /\ UNCHANGED <<metadata, minted, nextAddr>>

\* The accumulated number stays within the model's values.
WithinBound(stored, v) ==
    add_compatible(stored, CLValue_from_t(v)) => FromLE4(stored.bytes) + v.n <= MaxVal

\* add that calls ext_ffi::write.
add_call_write(uref, value) ==
    LET out == host_write(KeyFromURef(uref), CLValue_from_t(value))
    IN [trap |-> out.trap, global |-> out.global, local |-> local]

\* add that falls back to ext_ffi::write when the host would not merge.
add_call_fallback(uref, value) ==
    LET merged == host_add(KeyFromURef(uref), CLValue_from_t(value))
        out == IF merged.trap = "TypeMismatch"
               THEN host_write(KeyFromURef(uref), CLValue_from_t(value))
               ELSE merged
    IN [trap |-> out.trap, global |-> out.global, local |-> local]

\* add(uref, value): the key and the CLValue go to ext_ffi::add; the local
\* partition is not part of the call.
add_call(uref, value) ==
    LET out == host_add(KeyFromURef(uref), CLValue_from_t(value))
    IN [trap |-> out.trap, global |-> out.global, local |-> local]

add ==
    /\ status = "ready"
    /\ \E a \in urefs, rights \in AccessRights, v \in Values :
        LET out == add_call(URef(a, rights), v) IN
        /\ WithinBound(global[a], v)
        /\ global' = out.global
        /\ local' = out.local
        /\ Finish([Call("add") EXCEPT !.uref = URef(a, rights), !.val = v,
                       !.preval = global[a], !.hostcalls = Invoke("add")],
                  UnitOrTrap(out.trap))
    /\ resp' = NoResp
    /\ UNCHANGED <<metadata, minted, nextAddr>>

\* add_local(key, value): the key bytes and the CLValue go to
\* ext_ffi::add_local; the global partition is not part of the call.
add_local_call(k, value) ==
    LET out == host_add_local(local_key_to_bytes(k), CLValue_from_t(value))
    IN [trap |-> out.trap, global |-> global, local |-> out.local]

add_local ==
    /\ status = "ready"
    /\ \E k \in LocalKeyArgs, v \in Values :
        LET out == add_local_call(k, v) IN
        /\ WithinBound(local[local_key_to_bytes(k)], v)
        /\ local' = out.local
        /\ global' = out.global
        /\ Finish([Call("add_local") EXCEPT !.lkey = local_key_to_bytes(k),
                       !.val = v, !.preval = local[local_key_to_bytes(k)],
                       !.hostcalls = Invoke("add_local")],
                  UnitOrTrap(out.trap))
    /\ resp' = NoResp
    /\ UNCHANGED <<metadata, minted, nextAddr>>

\* new_uref whose reference is built with the Read right alone.
new_uref_result_read_only(bytes) ==
    LET d == uref_from_bytes(bytes)
    IN IF d.ok THEN [Ret("Value") EXCEPT !.uref = URef(d.uref.addr, {"R"})]
       ELSE Revert("Deserialize")

\* new_uref after the host call: the UREF_SERIALIZED_LENGTH bytes of the
\* buffer are deserialized as a URef, a failure reverts.
new_uref_result(bytes) ==
    LET d == uref_from_bytes(bytes)
    IN IF d.ok THEN [Ret("Value") EXCEPT !.uref = d.uref] ELSE Revert("Deserialize")

\* new_uref: the host mints an address, stores init under it and writes the
\* serialized URef (rights READ_ADD_WRITE) to the buffer the program
\* deserializes.
new_uref ==
    /\ status = "ready"
    /\ nextAddr <= MaxAddr
    /\ Cardinality({a \in Addr : minted[a] = "new_uref"}) < MaxURefs
    /\ \E init \in Values :
        LET cl_value == CLValue_from_t(init)
            bytes == uref_to_bytes(URef(nextAddr, READ_ADD_WRITE))
        IN /\ global' = [global EXCEPT ![nextAddr] = cl_value]
           /\ minted' = [minted EXCEPT ![nextAddr] = "new_uref"]
           /\ nextAddr' = nextAddr + 1
           /\ Finish([Call("new_uref") EXCEPT !.val = init,
                                              !.hostcalls = Invoke("new_uref")],
                     new_uref_result(bytes))
    /\ resp' = NoResp
    /\ UNCHANGED <<local, metadata>>

\* ------------------------------------------------ registry and user groups
\* Vec<URef>::to_bytes / from_bytes: the u32 length, then each URef.
RECURSIVE urefs_to_bytes(_)
urefs_to_bytes(us) ==
    IF us = <<>> THEN <<>> ELSE uref_to_bytes(Head(us)) \o urefs_to_bytes(Tail(us))
vec_to_bytes(us) == LE4(Len(us)) \o urefs_to_bytes(us)
vec_from_bytes(b) ==
    IF Len(b) >= 4 /\ Len(b) = 4 + 3 * FromLE4(SubSeq(b, 1, 4))
          /\ \A i \in 1..FromLE4(SubSeq(b, 1, 4)) :
                uref_from_bytes(SubSeq(b, 3 * i + 2, 3 * i + 4)).ok
    THEN [ok |-> TRUE,
          urefs |-> [i \in 1..FromLE4(SubSeq(b, 1, 4)) |->
                        uref_from_bytes(SubSeq(b, 3 * i + 2, 3 * i + 4)).uref]]
    ELSE [ok |-> FALSE, urefs |-> <<>>]

\* api_error::result_from(status)
result_from(st) == IF st = "Success" THEN Ret("Ok") ELSE [Ret("Err") EXCEPT !.code = st]

\* The record a contract key names (NoRecord when it names none).
RecordAt(key) ==
    IF key.variant = "Hash" /\ key.addr \in hashes THEN metadata[key.addr] ELSE NoRecord

\* The versions of a record that can be called.
CallableVersions(rec) == {v \in Versions : rec.versions[v] # "absent"}

\* The host's create_contract_metadata_at_hash: allocates the hash address
\* and the access reference together and stores an empty record.
host_create_contract_metadata_at_hash ==
    [hash_addr |-> nextAddr, access_addr |-> nextAddr + 1,
     metadata |-> [metadata EXCEPT ![nextAddr] =
                      [NoRecord EXCEPT !.exists = TRUE, !.access = nextAddr + 1]],
     minted |-> [minted EXCEPT ![nextAddr] = "hash", ![nextAddr + 1] = "access"],
     nextAddr |-> nextAddr + 2]

\* create_contract_metadata_at_hash with the two out-buffers taken for one
\* another.
create_contract_metadata_at_hash_result_swapped(hash_addr, access_addr) ==
    [Ret("Value") EXCEPT !.key = KeyHash(access_addr),
                         !.uref = URef(hash_addr, READ_ADD_WRITE)]

\* create_contract_metadata_at_hash: the key and the reference built from the
\* two addresses the host wrote.
create_contract_metadata_at_hash_result(hash_addr, access_addr) ==
    [Ret("Value") EXCEPT !.key = KeyHash(hash_addr),
                         !.uref = URef(access_addr, READ_ADD_WRITE)]

create_contract_metadata_at_hash ==
    /\ status = "ready"
    /\ nextAddr + 1 <= MaxAddr
    /\ LET out == host_create_contract_metadata_at_hash
       IN /\ metadata' = out.metadata
          /\ minted' = out.minted
          /\ nextAddr' = out.nextAddr
          /\ Finish([Call("create_contract_metadata_at_hash") EXCEPT
                         !.hostcalls = Invoke("create_contract_metadata_at_hash")],
                    create_contract_metadata_at_hash_result(out.hash_addr,
                                                            out.access_addr))
    /\ resp' = NoResp
    /\ UNCHANGED <<global, local>>

\* The host's create_contract_user_group: checks the access reference and the
\* label, mints num_new_urefs references, registers the group and answers
\* with the new references.
host_create_contract_user_group(contract, access_key, label, num, existing) ==
    LET fail(code) == [resp |-> Resp(code, <<>>), metadata |-> metadata,
                       minted |-> minted, nextAddr |-> nextAddr]
        new == nextAddr..(nextAddr + num - 1)
    IN IF RecordAt(contract) = NoRecord THEN fail("ContractNotFound")
       ELSE IF ~access_ok(contract, access_key) THEN fail("NoAccessRights")
       ELSE IF metadata[contract.addr].groups[label].exists
       THEN fail("GroupAlreadyExists")
       ELSE [resp |-> Resp("Success",
                 vec_to_bytes([i \in 1..num |-> URef(nextAddr + i - 1, READ_ADD_WRITE)])),
             metadata |-> [metadata EXCEPT ![contract.addr].groups[label] =
                              [exists |-> TRUE,
                               urefs |-> {u.addr : u \in existing} \cup new]],
             minted |-> [x \in Addr |-> IF x \in new THEN "group" ELSE minted[x]],
             nextAddr |-> nextAddr + num]

\* create_contract_user_group after the host call: a failure status reverts,
\* then the buffer is fetched and deserialized.
create_contract_user_group_outcome(r) ==
    IF r.status # "Success" THEN Revert(r.status)
    ELSE LET d == vec_from_bytes(r.bytes)
         IN IF d.ok THEN [Ret("Ok") EXCEPT !.urefs = d.urefs]
            ELSE Revert("Deserialize")

\* create_contract_user_group with existing_urefs_size passed where
\* num_new_urefs belongs.
create_contract_user_group_call_size(contract, access_key, label, num, existing) ==
    host_create_contract_user_group(contract, access_key, label,
                                    Cardinality(existing), existing)

\* create_contract_user_group: the arguments as they go to the host.
create_contract_user_group_call(contract, access_key, label, num, existing) ==
    host_create_contract_user_group(contract, access_key, label, num, existing)

create_contract_user_group ==
    /\ status = "ready"
    /\ \E contract \in {KeyHash(h) : h \in hashes},
          a \in urefs, rights \in AccessRights, label \in Labels,
          num \in 0..MaxNew, existing \in SUBSET {URef(u, READ_ADD_WRITE) : u \in urefs} :
        LET access_key == URef(a, rights)
            out == create_contract_user_group_call(contract, access_key, label, num,
                                                   existing)
        IN /\ nextAddr + num - 1 <= MaxAddr
           /\ Cardinality(existing) <= 1
           /\ resp' = out.resp
           /\ metadata' = out.metadata
           /\ minted' = out.minted
           /\ nextAddr' = out.nextAddr
           /\ Finish([Call("create_contract_user_group") EXCEPT
                          !.key = contract, !.uref = access_key, !.label = label,
                          !.num = num, !.existing = existing,
                          !.prerec = RecordAt(contract),
                          !.hostcalls = host_calls("create_contract_user_group",
                                                   out.resp)],
                     create_contract_user_group_outcome(out.resp))
    /\ UNCHANGED <<global, local>>

\* The host's add_contract_version.  Whether an existing version number is
\* rejected or superseded is the host's policy.
host_add_contract_version(contract, access_key, version, methods, supersede) ==
    LET fail(code) == [status |-> code, metadata |-> metadata]
    IN IF RecordAt(contract) = NoRecord THEN fail("ContractNotFound")
       ELSE IF ~access_ok(contract, access_key) THEN fail("NoAccessRights")
       ELSE IF metadata[contract.addr].versions[version] # "absent" /\ ~supersede
       THEN fail("VersionExists")
       ELSE [status |-> "Success",
             metadata |-> [metadata EXCEPT ![contract.addr].versions[version] = methods]]

\* add_contract_version that presents the record's own access reference in
\* place of the one the caller holds.
add_contract_version_call_forged(contract, access_key, version, methods, supersede) ==
    LET out == host_add_contract_version(contract,
                   URef(RecordAt(contract).access, READ_ADD_WRITE), version, methods,
                   supersede)
    IN [ret |-> result_from(out.status), status |-> out.status,
        metadata |-> out.metadata]

\* add_contract_version: the arguments as they go to the host, and the
\* status handed back as a Result.
add_contract_version_call(contract, access_key, version, methods, supersede) ==
    LET out == host_add_contract_version(contract, access_key, version, methods,
                                         supersede)
    IN [ret |-> result_from(out.status), status |-> out.status,
        metadata |-> out.metadata]

add_contract_version ==
    /\ status = "ready"
    /\ \E contract \in {KeyHash(h) : h \in hashes} \cup
                       {KeyFromURef(URef(u, READ_ADD_WRITE)) : u \in urefs},
          a \in urefs, rights \in AccessRights, version \in Versions,
          methods \in Methods, supersede \in BOOLEAN :
        LET access_key == URef(a, rights)
            out == add_contract_version_call(contract, access_key, version, methods,
                                             supersede)
        IN /\ RecordAt(contract).versions[version] = "absent" => ~supersede
           /\ resp' = Resp(out.status, <<>>)
           /\ metadata' = out.metadata
           /\ Finish([Call("add_contract_version") EXCEPT
                          !.key = contract, !.uref = access_key, !.ver = version,
                          !.methods = methods, !.prerec = RecordAt(contract),
                          !.hostcalls =
                              <<HostCall("add_contract_version", out.status, 0)>>],
                     out.ret)
    /\ UNCHANGED <<global, local, minted, nextAddr>>

\* The host's remove_contract_version: removing a version the record does not
\* hold fails.
host_remove_contract_version(contract, access_key, version) ==
    LET fail(code) == [status |-> code, metadata |-> metadata]
    IN IF RecordAt(contract) = NoRecord THEN fail("ContractNotFound")
       ELSE IF ~access_ok(contract, access_key) THEN fail("NoAccessRights")
       ELSE IF metadata[contract.addr].versions[version] = "absent"
       THEN fail("VersionNotFound")
       ELSE [status |-> "Success",
             metadata |-> [metadata EXCEPT ![contract.addr].versions[version] = "absent"]]

\* A ContractRef: the Hash or the URef variant.
ContractRefHash(addr) == [variant |-> "Hash", addr |-> addr, rights |-> {}]
ContractRefURef(uref) == [variant |-> "URef", addr |-> uref.addr, rights |-> uref.rights]

\* Key::from(contract) that makes every ContractRef a URef key.
KeyFromContractRef_uref(c) == KeyFromURef(URef(c.addr, READ_ADD_WRITE))

\* Key::from(contract): a ContractRef::Hash is a Hash key, a ContractRef::URef
\* a URef key.
KeyFromContractRef(c) ==
    IF c.variant = "Hash" THEN KeyHash(c.addr) ELSE KeyFromURef(URef(c.addr, c.rights))

\* remove_contract_version that drops the host's status and reports success.
remove_contract_version_call_ok(c, access_key, version) ==
    LET out == host_remove_contract_version(KeyFromContractRef(c), access_key, version)
    IN [ret |-> Ret("Ok"), status |-> out.status, metadata |-> out.metadata]

\* remove_contract_version: the arguments as they go to the host, and the
\* status handed back as a Result.
remove_contract_version_call(c, access_key, version) ==
    LET out == host_remove_contract_version(KeyFromContractRef(c), access_key, version)
    IN [ret |-> result_from(out.status), status |-> out.status,
        metadata |-> out.metadata]

remove_contract_version ==
    /\ status = "ready"
    /\ \E c \in {ContractRefHash(h) : h \in hashes} \cup
                {ContractRefURef(URef(u, READ_ADD_WRITE)) : u \in urefs},
          a \in urefs, rights \in AccessRights, version \in Versions :
        LET access_key == URef(a, rights)
            out == remove_contract_version_call(c, access_key, version)
        IN /\ resp' = Resp(out.status, <<>>)
           /\ metadata' = out.metadata
           /\ Finish([Call("remove_contract_version") EXCEPT
                          !.key = KeyFromContractRef(c), !.uref = access_key,
                          !.ver = version,
                          !.prerec = RecordAt(KeyFromContractRef(c)),
                          !.hostcalls =
                              <<HostCall("remove_contract_version", out.status, 0)>>],
                     out.ret)
    /\ UNCHANGED <<global, local, minted, nextAddr>>

\* The program drops the result of a call and goes on to its next call.
drop_result ==
    /\ status = "returned"
    /\ status' = "ready"
    /\ last' = Call("init")
    /\ resp' = NoResp
    /\ UNCHANGED <<global, local, metadata, minted, nextAddr>>

\* ---------------------------------------------------------- specification
Init ==
    /\ global = [a \in Addr |-> NoValue]
    /\ local = [b \in LocalKeyBytes |-> NoValue]
    /\ metadata = [a \in Addr |-> NoRecord]
    /\ minted = [a \in Addr |-> "free"]
    /\ nextAddr = 1
    /\ status = "ready"
    /\ resp = NoResp
    /\ last = Call("init")

Next ==
    \/ read
    \/ read_or_revert
    \/ read_local
    \/ write
    \/ write_local
    \/ add
    \/ add_local
    \/ new_uref
    \/ create_contract_metadata_at_hash
    \/ create_contract_user_group
    \/ add_contract_version
    \/ remove_contract_version
    \/ drop_result

Spec == Init /\ [][Next]_vars

\* A program that uses the accessors and the allocations.
NextStore ==
    \/ read
    \/ read_or_revert
    \/ read_local
    \/ write
    \/ write_local
    \/ add
    \/ add_local
    \/ new_uref
    \/ create_contract_metadata_at_hash
    \/ drop_result

SpecStore == Init /\ [][NextStore]_vars

\* A program that uses the registry, the user groups and the allocations.
NextRegistry ==
    \/ new_uref
    \/ create_contract_metadata_at_hash
    \/ create_contract_user_group
    \/ add_contract_version
    \/ remove_contract_version
    \/ drop_result

SpecRegistry == Init /\ [][NextRegistry]_vars

\* The accessors' handling of the host's answer, for every answer the host
\* can give: the status codes, and in the buffer a serialized value, an
\* empty or a short buffer.
Statuses == {"Success", "ValueNotFound", "Read", "NoAccessRights", "InvalidArgument"}
Buffers == {to_bytes(v) : v \in Values} \cup {<<>>, <<5>>, LE4(0) \o <<0>>}

InitResp ==
    /\ global = [a \in Addr |-> NoValue]
    /\ local = [b \in LocalKeyBytes |-> NoValue]
    /\ metadata = [a \in Addr |-> NoRecord]
    /\ minted = [a \in Addr |-> "free"]
    /\ nextAddr = 1
    /\ status = "ready"
    /\ resp \in {Resp(st, b) : st \in Statuses, b \in Buffers}
    /\ last = Call("init")

read_answered ==
    /\ status = "ready"
    /\ \E T \in Types :
        Finish([Call("read") EXCEPT !.ty = T,
                                    !.hostcalls = host_calls("read_value", resp)],
               read_outcome(resp, T))
    /\ UNCHANGED <<global, local, metadata, minted, nextAddr, resp>>

read_local_answered ==
    /\ status = "ready"
    /\ \E T \in Types :
        Finish([Call("read_local") EXCEPT !.ty = T,
                    !.hostcalls = host_calls("read_value_local", resp)],
               read_local_outcome(resp, T))
    /\ UNCHANGED <<global, local, metadata, minted, nextAddr, resp>>

read_or_revert_answered ==
    /\ status = "ready"
    /\ \E T \in Types :
        Finish([Call("read_or_revert") EXCEPT !.ty = T,
                    !.hostcalls = host_calls("read_value", resp)],
               read_or_revert_outcome(read_outcome(resp, T)))
    /\ UNCHANGED <<global, local, metadata, minted, nextAddr, resp>>

NextResp ==
    \/ read_answered
    \/ read_local_answered
    \/ read_or_revert_answered

SpecResp == InitResp /\ [][NextResp]_vars

\* What the host can leave in the UREF_SERIALIZED_LENGTH bytes new_uref
\* deserializes: a serialized URef, or, breaking its contract, a serialized
\* Hash key, which is one byte shorter and leaves the last byte of the
\* buffer as it was allocated.
UninitBytes == 0..7
KeyBuffers ==
    {Resp("URef", uref_to_bytes(URef(a, r))) : a \in Addr, r \in AccessRights}
        \cup {Resp("Hash", key_to_bytes(KeyHash(a)) \o <<x>>) :
                 a \in Addr, x \in UninitBytes}

InitKey ==
    /\ global = [a \in Addr |-> NoValue]
    /\ local = [b \in LocalKeyBytes |-> NoValue]
    /\ metadata = [a \in Addr |-> NoRecord]
    /\ minted = [a \in Addr |-> "free"]
    /\ nextAddr = 1
    /\ status = "ready"
    /\ resp \in KeyBuffers
    /\ last = Call("init")

new_uref_answered ==
    /\ status = "ready"
    /\ Finish([Call("new_uref") EXCEPT !.hostcalls = Invoke("new_uref")],
              new_uref_result(resp.bytes))
    /\ UNCHANGED <<global, local, metadata, minted, nextAddr, resp>>

NextKey ==
    \/ new_uref_answered

SpecKey == InitKey /\ [][NextKey]_vars

\* create_contract_user_group's handling of the host's answer, for every
\* answer the host can give.
create_contract_user_group_answered ==
    /\ status = "ready"
    /\ Finish([Call("create_contract_user_group") EXCEPT
                   !.hostcalls = host_calls("create_contract_user_group", resp)],
              create_contract_user_group_outcome(resp))
    /\ UNCHANGED <<global, local, metadata, minted, nextAddr, resp>>

\* The operations that fetch the host buffer, against every answer.
NextProtocol ==
    \/ read_answered
    \/ read_local_answered
    \/ read_or_revert_answered
    \/ create_contract_user_group_answered

SpecProtocol == InitResp /\ [][NextProtocol]_vars

\* ------------------------------------------------------------ properties
\* C1: round trip.  A write through a reference carrying the Write right
\* returns, and a read through any reference to the same address carrying
\* the Read right then returns Some of exactly the value written, whatever
\* the slot held before (the prior value is discarded, not merged); and until
\* the next write or add to that address the slot keeps its value: a slot of
\* the global partition changes only by a write or an add to its address, or
\* when new_uref mints it.
C1_RoundTrip ==
    (last.op = "write" /\ "W" \in last.uref.rights) =>
        /\ status = "returned"
        /\ \A rights \in AccessRights :
              "R" \in rights =>
                  read_call(URef(last.uref.addr, rights), last.val.ty)
                      = OkSome(last.val)
C1_SlotKept ==
    \A a \in Addr :
        global'[a] # global[a] =>
            \/ last'.op \in {"write", "add"} /\ last'.uref.addr = a
            \/ last'.op = "new_uref" /\ last'.ret.uref.addr = a /\ minted[a] = "free"
C1_WriteThenRead == [][C1_RoundTrip' /\ C1_SlotKept]_vars
\* A write through a Write-only reference over a different value.
C1_Witness ==
    /\ last.op = "write"
    /\ last.uref.rights = {"W"}
    /\ status = "returned"
    /\ last.preval # NoValue
    /\ last.preval # CLValue_from_t(last.val)

\* C2 as amended: a read through a reference carrying the Read right of a
\* slot nothing was ever written or added under, and a read_local of such a
\* local key, return Ok(None): no error value, no abort.  (A slot holds
\* NoValue exactly when nothing was written or added under it.)
C2_ReadBeforeWrite ==
    /\ (last.op = "read" /\ last.preval = NoValue /\ "R" \in last.uref.rights) =>
          last.ret = Ret("OkNone") /\ status = "returned"
    /\ (last.op = "read_local" /\ last.preval = NoValue) =>
          last.ret = Ret("OkNone") /\ status = "returned"
C2_Witness ==
    /\ last.op = "read"
    /\ last.preval = NoValue
    /\ "R" \in last.uref.rights
\* C2 as claimed: for every capability reference, whatever its rights.
C2_Original ==
    /\ (last.op = "read" /\ last.preval = NoValue) =>
          last.ret = Ret("OkNone") /\ status = "returned"
    /\ (last.op = "read_local" /\ last.preval = NoValue) =>
          last.ret = Ret("OkNone") /\ status = "returned"

\* C3: read and read_local have four outcomes, decided by the host's answer:
\* Success with bytes that decode as T is Ok(Some(value)); Success with bytes
\* that do not decode is an Err handed to the caller, no abort; ValueNotFound
\* is Ok(None); any other status ends the instance with that status code.
C3_ReadOutcomes ==
    last.op \in {"read", "read_local"} =>
        LET d == deserialize(last.ty, resp.bytes) IN
        /\ (resp.status = "Success" /\ d.ok) =>
              last.ret = OkSome(d.val) /\ status = "returned"
        /\ (resp.status = "Success" /\ ~d.ok) =>
              last.ret.kind = "Err" /\ status = "returned"
        /\ resp.status = "ValueNotFound" =>
              last.ret = Ret("OkNone") /\ status = "returned"
        /\ resp.status \notin {"Success", "ValueNotFound"} =>
              last.ret = Revert(resp.status) /\ status = "aborted"
C3_Witness ==
    /\ last.op = "read_local"
    /\ resp.status = "Success"
    /\ ~deserialize(last.ty, resp.bytes).ok
    /\ last.ret.kind = "Err"

\* C4: read_or_revert returns a value exactly when read returns Ok(Some(v)),
\* and then v; a missing value ends the instance with ValueNotFound, bytes
\* that do not deserialize end it with Read.
C4_ReadOrRevert ==
    last.op = "read_or_revert" =>
        LET r == read_outcome(resp, last.ty) IN
        /\ last.ret.kind = "Value" <=> r.kind = "OkSome"
        /\ r.kind = "OkSome" => last.ret.val = r.val /\ status = "returned"
        /\ resp.status = "ValueNotFound" =>
              last.ret = Revert("ValueNotFound") /\ status = "aborted"
        /\ (resp.status = "Success" /\ ~deserialize(last.ty, resp.bytes).ok) =>
              last.ret = Revert("Read") /\ status = "aborted"
C4_Witness ==
    /\ last.op = "read_or_revert"
    /\ resp.status = "Success"
    /\ ~deserialize(last.ty, resp.bytes).ok
    /\ last.ret = Revert("Read")

\* C5: a read, write or add through a reference that lacks the right the
\* operation requires is rejected: the instance is aborted, the call does not
\* return, and the value stored under the address is the one it held before.
RequiredRight(op) == IF op = "read" THEN "R" ELSE IF op = "write" THEN "W" ELSE "A"
C5_RightsEnforced ==
    (last.op \in {"read", "write", "add"}
        /\ RequiredRight(last.op) \notin last.uref.rights) =>
        /\ status = "aborted"
        /\ Fatal(last.ret)
        /\ global[last.uref.addr] = last.preval
\* A Read-only reference passed to write, the slot holding a value.
C5_Witness ==
    /\ last.op = "write"
    /\ last.uref.rights = {"R"}
    /\ last.preval # NoValue
    /\ status = "aborted"

\* C6: partition isolation.  A write_local or add_local changes the result of
\* no read of the global partition (in particular not of the global key whose
\* serialized bytes are the local key's), and a write or add changes the
\* result of no read_local.
C6_Isolation ==
    /\ last'.op \in {"write_local", "add_local"} =>
          \A a \in Addr, rights \in AccessRights, T \in Types :
              read_call(URef(a, rights), T)' = read_call(URef(a, rights), T)
    /\ last'.op \in {"write", "add"} =>
          \A k \in LocalKeyArgs, T \in Types :
              read_local_call(k, T)' = read_local_call(k, T)
C6_PartitionsIsolated == [][C6_Isolation]_vars
\* A write_local under the bytes of a global key that holds another value.
C6_Witness ==
    /\ last.op = "write_local"
    /\ \E a \in urefs :
          /\ last.lkey = key_to_bytes(KeyFromURef(URef(a, READ_ADD_WRITE)))
          /\ global[a] # NoValue
          /\ global[a] # CLValue_from_t(last.val)

\* C7: an add of a number through a reference carrying the Add right, to a
\* slot holding a number, returns and leaves the sum, which a read then
\* returns; after add(r, v1) to a slot holding zero, add(r, v2) leaves
\* v1 + v2.  The same for add_local.
C7_AddTwice ==
    /\ (last.op = "add" /\ "A" \in last.uref.rights
           /\ last.preval.cl_type = "I32" /\ last.val.ty = "I32") =>
          LET a == last.uref.addr
              sum == I32(FromLE4(last.preval.bytes) + last.val.n)
          IN /\ status = "returned"
             /\ global[a] = CLValue_from_t(sum)
             /\ \A rights \in AccessRights :
                   "R" \in rights => read_call(URef(a, rights), "I32") = OkSome(sum)
             /\ last.preval = CLValue_from_t(I32(0)) =>
                   \A v2 \in 0..MaxVal, rights \in AccessRights :
                       "A" \in rights =>
                           LET second == add_call(URef(a, rights), I32(v2)) IN
                           /\ second.trap = ""
                           /\ second.global[a] = CLValue_from_t(I32(last.val.n + v2))
    /\ (last.op = "add_local" /\ last.preval.cl_type = "I32" /\ last.val.ty = "I32") =>
          LET sum == I32(FromLE4(last.preval.bytes) + last.val.n)
          IN /\ status = "returned"
             /\ local[last.lkey] = CLValue_from_t(sum)
             /\ \A k \in LocalKeyArgs :
                   local_key_to_bytes(k) = last.lkey =>
                       /\ read_local_call(k, "I32") = OkSome(sum)
                       /\ last.preval = CLValue_from_t(I32(0)) =>
                             \A v2 \in 0..MaxVal :
                                 LET second == add_local_call(k, I32(v2)) IN
                                 /\ second.trap = ""
                                 /\ second.local[last.lkey]
                                       = CLValue_from_t(I32(last.val.n + v2))
\* The second of two adds of 1 to a slot that held zero.
C7_Witness ==
    /\ last.op = "add"
    /\ last.uref.rights = {"A"}
    /\ last.preval = CLValue_from_t(I32(1))
    /\ last.val = I32(1)
    /\ global[last.uref.addr] = CLValue_from_t(I32(2))

\* An address the host handed out is never handed out again.
MintedKept == \A a \in Addr : minted[a] # "free" => minted'[a] = minted[a]

\* C8: create_contract_metadata_at_hash returns a Hash key whose address no
\* earlier call returned, with an access reference of rights READ_ADD_WRITE
\* to an address no earlier call returned; the new record has no version,
\* and a record without versions gets its first one only by an
\* add_contract_version on it that succeeds.
C8_Step ==
    /\ last'.op = "create_contract_metadata_at_hash" =>
          LET h == last'.ret.key.addr
              u == last'.ret.uref
          IN /\ status' = "returned"
             /\ last'.ret.key.variant = "Hash"
             /\ minted[h] = "free" /\ minted'[h] = "hash"
             /\ minted[u.addr] = "free" /\ minted'[u.addr] = "access"
             /\ u.rights = READ_ADD_WRITE
             /\ metadata'[h].exists /\ metadata'[h].access = u.addr
             /\ CallableVersions(metadata'[h]) = {}
    /\ MintedKept
    /\ \A h \in Addr :
          (CallableVersions(metadata[h]) = {} /\ CallableVersions(metadata'[h]) # {}) =>
              /\ last'.op = "add_contract_version"
              /\ last'.ret.kind = "Ok"
              /\ last'.key = KeyHash(h)
C8_FreshMetadata == [][C8_Step]_vars
\* The second call.
C8_Witness ==
    /\ last.op = "create_contract_metadata_at_hash"
    /\ Cardinality(hashes) = 2

\* C9: a successful add_contract_version on a record without versions makes
\* the callable versions exactly the one added; a remove_contract_version of
\* that version with the same access reference then succeeds and leaves the
\* record as it was before the add, and every other record as it is.  A
\* successful remove_contract_version takes away that version and nothing
\* else of the record.
C9_AddThenRemove ==
    /\ (last.op = "add_contract_version" /\ last.ret.kind = "Ok"
           /\ CallableVersions(last.prerec) = {}) =>
          LET h == last.key.addr
              undo == remove_contract_version_call(ContractRefHash(h), last.uref,
                                                   last.ver)
          IN /\ last.key.variant = "Hash"
             /\ last.prerec.exists
             /\ CallableVersions(metadata[h]) = {last.ver}
             /\ metadata[h].versions[last.ver] = last.methods
             /\ undo.ret.kind = "Ok"
             /\ undo.metadata[h] = last.prerec
             /\ undo.metadata = [metadata EXCEPT ![h] = last.prerec]
    /\ (last.op = "remove_contract_version" /\ last.ret.kind = "Ok") =>
          /\ last.prerec.exists
          /\ last.prerec.versions[last.ver] # "absent"
          /\ metadata[last.key.addr]
                = [last.prerec EXCEPT !.versions[last.ver] = "absent"]
\* The first version of a record that already has a user group.
C9_Witness ==
    /\ last.op = "add_contract_version"
    /\ last.ret.kind = "Ok"
    /\ CallableVersions(last.prerec) = {}
    /\ \E l \in Labels : last.prerec.groups[l].exists

\* C10: a successful create_contract_user_group returns exactly num_new_urefs
\* references, pairwise distinct, none of them in existing_urefs and none
\* minted by any earlier operation; the group registered under the label is
\* existing_urefs with the new references.
C10_Step ==
    /\ (last'.op = "create_contract_user_group" /\ last'.ret.kind = "Ok") =>
          LET us == last'.ret.urefs
              S == {u.addr : u \in last'.existing}
              new == {us[i].addr : i \in 1..Len(us)}
          IN /\ Len(us) = last'.num
             /\ Cardinality(new) = Len(us)
             /\ new \cap S = {}
             /\ \A i \in 1..Len(us) : us[i] \notin last'.existing
             /\ \A a \in new : a \in Addr /\ minted[a] = "free" /\ minted'[a] = "group"
             /\ metadata'[last'.key.addr].groups[last'.label]
                   = [exists |-> TRUE, urefs |-> S \cup new]
    /\ MintedKept
C10_GroupRefsFresh == [][C10_Step]_vars
\* Two new references with an existing one folded in.
C10_Witness ==
    /\ last.op = "create_contract_user_group"
    /\ last.ret.kind = "Ok"
    /\ last.num = 2
    /\ last.existing # {}

\* C11 as claimed: a create_contract_user_group the host refuses, for an
\* access reference without the required right or for a label the record
\* already uses, returns Err to the caller, the instance goes on, and the
\* record's groups are as before.
C11_GroupFailureReturned ==
    (last.op = "create_contract_user_group"
        /\ resp.status \in {"NoAccessRights", "GroupAlreadyExists"}) =>
        /\ last.ret.kind = "Err"
        /\ status = "returned"
        /\ metadata[last.key.addr].groups = last.prerec.groups
\* What the code does on such a refusal: the instance ends with the host's
\* status code; the record is as before.
C11_GroupFailureReverts ==
    (last.op = "create_contract_user_group" /\ resp.status # "Success") =>
        /\ last.ret = Revert(resp.status)
        /\ status = "aborted"
        /\ metadata[last.key.addr] = last.prerec
\* A second group under a label the record already uses.
C11_Witness ==
    /\ last.op = "create_contract_user_group"
    /\ resp.status = "GroupAlreadyExists"
    /\ status = "aborted"

\* C12 as claimed: an add_contract_version or remove_contract_version the
\* host answers with a status other than Success ends the instance, and of
\* the registry operations only create_contract_user_group hands a host
\* failure back to the caller as an Err.
C12_VersionFailureAborts ==
    /\ (last.op \in {"add_contract_version", "remove_contract_version"}
           /\ resp.status # "Success") =>
          status = "aborted" /\ Fatal(last.ret)
    /\ (last.op = "create_contract_user_group" /\ resp.status # "Success") =>
          last.ret.kind = "Err" /\ status = "returned"
\* What the code does: the status of add_contract_version and
\* remove_contract_version comes back as Err(status) and the instance goes on.
C12_VersionFailureReturned ==
    (last.op \in {"add_contract_version", "remove_contract_version"}
        /\ resp.status # "Success") =>
        /\ last.ret = [Ret("Err") EXCEPT !.code = resp.status]
        /\ status = "returned"
\* An add_contract_version through a reference that is not the record's.
C12_Witness ==
    /\ last.op = "add_contract_version"
    /\ resp.status = "NoAccessRights"
    /\ last.ret.kind = "Err"
    /\ status = "returned"

\* The registry operations that change a record.
RegistryMutators ==
    {"add_contract_version", "remove_contract_version", "create_contract_user_group"}

\* C13: the versions and the user groups of a metadata record change only by
\* an add_contract_version, remove_contract_version or
\* create_contract_user_group on that record that presented the access
\* reference paired with it at creation, carrying the Add or the Write
\* right; such a call presenting any other reference (another record's
\* access reference, a reference without the right) does not succeed and
\* leaves every record as it was.
C13_Step ==
    /\ \A h \in Addr :
          (metadata[h].exists /\ metadata'[h] # metadata[h]) =>
              /\ last'.op \in RegistryMutators
              /\ last'.key = KeyHash(h)
              /\ last'.uref.addr = metadata[h].access
              /\ last'.uref.rights \cap {"A", "W"} # {}
              /\ metadata'[h].exists
              /\ metadata'[h].access = metadata[h].access
    /\ (last'.op \in RegistryMutators
           /\ last'.key.variant = "Hash" /\ last'.key.addr \in hashes
           /\ (\/ last'.uref.addr # metadata[last'.key.addr].access
               \/ last'.uref.rights \cap {"A", "W"} = {})) =>
          /\ metadata' = metadata
          /\ last'.ret.kind # "Ok"
C13_AccessGuardsRecord == [][C13_Step]_vars
\* An add_contract_version on one record through the access reference of
\* another record, with full rights.
C13_Witness ==
    /\ last.op = "add_contract_version"
    /\ last.key.variant = "Hash"
    /\ last.prerec.exists
    /\ last.uref.rights = READ_ADD_WRITE
    /\ last.uref.addr # last.prerec.access
    /\ \E h \in hashes : metadata[h].access = last.uref.addr
    /\ metadata[last.key.addr] = last.prerec

\* C14: a remove_contract_version of a version the record does not hold (a
\* record without versions included) fails, with VersionNotFound when the
\* access reference is the record's, and leaves the record as it was; a
\* successful removal of the last version leaves the record existing, with
\* no version, its access reference and its groups as before.
C14_RemoveMissingFails ==
    /\ (last.op = "remove_contract_version" /\ last.prerec.exists
           /\ last.prerec.versions[last.ver] = "absent") =>
          /\ last.ret.kind = "Err"
          /\ status = "returned"
          /\ metadata[last.key.addr] = last.prerec
          /\ (last.uref.addr = last.prerec.access
                 /\ last.uref.rights \cap {"A", "W"} # {}) =>
                last.ret.code = "VersionNotFound"
    /\ (last.op = "remove_contract_version" /\ last.ret.kind = "Ok"
           /\ CallableVersions(last.prerec) = {last.ver}) =>
          /\ metadata[last.key.addr].exists
          /\ CallableVersions(metadata[last.key.addr]) = {}
          /\ metadata[last.key.addr].access = last.prerec.access
          /\ metadata[last.key.addr].groups = last.prerec.groups
\* A removal from a record without versions, through the record's own access
\* reference.
C14_Witness ==
    /\ last.op = "remove_contract_version"
    /\ last.prerec.exists
    /\ CallableVersions(last.prerec) = {}
    /\ last.uref = URef(last.prerec.access, READ_ADD_WRITE)
    /\ last.ret.code = "VersionNotFound"

\* C15: new_uref(init) returns a reference with rights READ_ADD_WRITE to an
\* address no earlier allocation handed out; a read through it right after
\* returns Some(init); the values under every other address, the local
\* partition and the metadata records are as before.
C15_Step ==
    /\ last'.op = "new_uref" =>
          LET u == last'.ret.uref IN
          /\ status' = "returned"
          /\ last'.ret.kind = "Value"
          /\ u.rights = READ_ADD_WRITE
          /\ u.addr \in Addr
          /\ minted[u.addr] = "free" /\ minted'[u.addr] = "new_uref"
          /\ \A a \in Addr, v \in Values :
                (u.addr = a /\ last'.val = v) =>
                    read_call(URef(a, READ_ADD_WRITE), v.ty)' = OkSome(v)
          /\ \A a \in Addr \ {u.addr} : global'[a] = global[a]
          /\ local' = local
          /\ metadata' = metadata
    /\ MintedKept
C15_NewURefFresh == [][C15_Step]_vars
\* An allocation while another address holds a value.
C15_Witness ==
    /\ last.op = "new_uref"
    /\ \E a \in Addr \ {last.ret.uref.addr} : global[a] # NoValue
    /\ global[last.ret.uref.addr] = CLValue_from_t(last.val)

\* C16 as claimed: when the host answers new_uref with a key that is not a
\* URef (a Hash key), the call ends the instance with the "unexpected key
\* variant" code and yields no reference.
C16_UnexpectedKeyVariant ==
    (last.op = "new_uref" /\ resp.status = "Hash") =>
        /\ last.ret = Revert("UnexpectedKeyVariant")
        /\ status = "aborted"
\* What the code does with such an answer: the bytes are taken for a URef; the
\* call reverts with the deserialization error, or returns a reference when
\* the bytes happen to parse.  It never reverts with the variant code.
C16_NoVariantCheck ==
    last.op = "new_uref" =>
        /\ last.ret.code # "UnexpectedKeyVariant"
        /\ last.ret.kind = "Value" \/ last.ret = Revert("Deserialize")
\* A Hash key whose bytes parse as a URef: the call returns a reference.
C16_Witness ==
    /\ last.op = "new_uref"
    /\ resp.status = "Hash"
    /\ last.ret.kind = "Value"
    /\ status = "returned"

\* C17: an add through a reference carrying the Add right to a slot whose
\* stored value is not add-compatible with the value added ends the instance,
\* and the slot holds what it held before (nothing is merged).
C17_AddMismatchFatal ==
    (last.op = "add" /\ "A" \in last.uref.rights
        /\ ~add_compatible(last.preval, CLValue_from_t(last.val))) =>
        /\ status = "aborted"
        /\ last.ret = Trap("TypeMismatch")
        /\ global[last.uref.addr] = last.preval
\* A number added to a slot holding a String.
C17_Witness ==
    /\ last.op = "add"
    /\ "A" \in last.uref.rights
    /\ last.preval.cl_type = "String"
    /\ last.val.ty = "I32"
    /\ status = "aborted"

\* The ext_ffi function an operation invokes.
InvokeOf(op) ==
    IF op = "read_local" THEN "read_value_local"
    ELSE IF op = "create_contract_user_group" THEN "create_contract_user_group"
    ELSE "read_value"

C19_Step ==
    /\ status # "aborted"
    /\ Fatal(last'.ret) <=> status' = "aborted"
    /\ status' = "aborted" =>
          /\ last'.ret.val = Ret("Unit").val
          /\ last'.ret.uref = Ret("Unit").uref
          /\ last'.ret.urefs = <<>>
    /\ \A a \in Addr, rights \in AccessRights, T \in Types :
          (last'.op = "read_or_revert" /\ last'.uref = URef(a, rights)
              /\ last'.ty = T /\ Fatal(read_call(URef(a, rights), T))) =>
              /\ last'.ret = read_call(URef(a, rights), T)
              /\ status' = "aborted"
C20_Step ==
    last'.op \in {"read", "read_local", "read_or_revert"} =>
        /\ global' = global
        /\ local' = local
        /\ metadata' = metadata
        /\ minted' = minted
        /\ nextAddr' = nextAddr
        /\ \A a \in Addr, rights \in AccessRights, T \in Types :
              (last'.uref = URef(a, rights) /\ last'.ty = T) =>
                  /\ last'.op = "read" =>
                        read_call(URef(a, rights), T)' = last'.ret
                  /\ last'.op = "read_or_revert" =>
                        read_or_revert_outcome(read_call(URef(a, rights), T))'
                            = last'.ret
        /\ \A k \in LocalKeyArgs, T \in Types :
              (last'.op = "read_local" /\ last'.lkey = local_key_to_bytes(k)
                  /\ last'.ty = T) =>
                  read_local_call(k, T)' = last'.ret
C20_ReadsObserve == [][C20_Step]_vars
\* A read_or_revert that ends the instance, with values in both partitions
\* and a metadata record in the store.
C20_Witness ==
    /\ last.op = "read_or_revert"
    /\ status = "aborted"
    /\ hashes # {}
    /\ \E a \in Addr : global[a] # NoValue
    /\ \E b \in LocalKeyBytes : local[b] # NoValue

====
